---- MODULE Spec2Model ----
(***************************************************************************)
(* local-brain: the review orchestration pipeline of src/src/main.rs.      *)
(*                                                                         *)
(* Text (a --files argument, a path, a file name, a pattern) is a sequence *)
(* of one-character strings, so that split, trim, prefix and suffix tests  *)
(* are computed as the code computes them.  Model names and task labels    *)
(* are only ever compared for equality and are plain strings.              *)
(***************************************************************************)
EXTENDS Integers, Sequences, FiniteSets, TLC

VARIABLES
    cli,        \* the parsed command line (struct Cli)
    env_model,  \* the MODEL_NAME environment variable, or None
    disk,       \* models.json as load_model_registry finds it
    input,      \* what discovery reads: the git outputs, the directory tree
    pc,         \* position of the single control thread
    files,      \* the discovered file list
    idx,        \* number of files of the list the per-file loop has finished
    run_num,    \* runs of the current file already made (multi-run mode)
    results,    \* review_file_multi_run: results of the successful runs
    durations,  \* review_file_multi_run: durations of the successful runs
    sections,   \* markdown_sections
    stdout,     \* what was printed on the standard output, in order
    stderr,     \* what was printed on the diagnostic stream, in order
    exit_code,  \* the process exit code, -1 while running
    trace,      \* history: every review_file_with_count call, in order
    sel         \* SpecSelect: what select_model and select_model_adaptive returned

vars == <<cli, env_model, disk, input, pc, files, idx, run_num, results,
          durations, sections, stdout, stderr, exit_code, trace, sel>>

-----------------------------------------------------------------------------
(* Bounds of the model.                                                    *)

MaxModels == 3      \* descriptors in the registry's models list
MaxFileCount == 3   \* file counts given to the adaptive selector
MaxStrLen == 3      \* characters of a --files argument
MaxRuns == 2        \* --runs

-----------------------------------------------------------------------------
(* Option<String>::None, and Result<String>.                               *)

None == "<none>"

Ok(v) == [ok |-> TRUE, val |-> v, err |-> None, detail |-> {}, notes |-> <<>>]

Err(e) == [ok |-> FALSE, val |-> None, err |-> e, detail |-> {}, notes |-> <<>>]

-----------------------------------------------------------------------------
(* The model registry.                                                     *)

ModelNames == {"a", "b", "c", "d"}

Speeds == {"very-fast", "fast", "moderate", "slow"}

TaskLabels == {"quick-review", "security"}

\* struct ModelInfo (size_gb and parameters only ever reach a message)
ModelInfo == [name : ModelNames, speed : Speeds]

RECURSIVE SeqsUpTo(_, _)
SeqsUpTo(S, n) ==
    IF n = 0 THEN {<<>>}
    ELSE LET shorter == SeqsUpTo(S, n - 1)
         IN  shorter \cup {Append(s, x) : s \in {t \in shorter : Len(t) = n - 1}, x \in S}

NoDuplicateNames(ms) ==
    \A i, j \in 1..Len(ms) : ms[i].name = ms[j].name => i = j

\* The models lists of a registry document whose descriptors are keyed by name.
ModelLists == {ms \in SeqsUpTo(ModelInfo, MaxModels) : NoDuplicateNames(ms)}

\* struct ModelRegistry, with the state of the document on disk.
Registry(ms, tm, dm) ==
    [state |-> "ok", models |-> ms, task_mappings |-> tm, default_model |-> dm]

NoRegistry(why) ==
    [state |-> why, models |-> <<>>, task_mappings |-> <<>>, default_model |-> None]

TaskMappings ==
    {<<>>, [t \in {"quick-review"} |-> "c"], [t \in TaskLabels |-> "c"]}

DiskStates ==
    {NoRegistry("missing"), NoRegistry("malformed")}
        \cup {Registry(ms, tm, dm) : ms \in ModelLists, tm \in TaskMappings,
                                     dm \in {"a", "d"}}

\* load_model_registry: reads and parses models.json anew on every call.
load_model_registry(d) ==
    IF d.state = "missing" THEN Err("Failed to read models.json")
    ELSE IF d.state = "malformed" THEN Err("Failed to parse models.json")
    ELSE Ok(d)

-----------------------------------------------------------------------------
(* Model selection.                                                        *)

\* enum ModelPriority
CliFlag(m) == [kind |-> "CliFlag", v |-> m]
Task(t) == [kind |-> "Task", v |-> t]
EnvVar(m) == [kind |-> "EnvVar", v |-> m]
Default == [kind |-> "Default", v |-> None]

determine_model_priority_TaskFirst(c, e) ==
    IF c.task # None THEN Task(c.task)
    ELSE IF c.model # None THEN CliFlag(c.model)
    ELSE IF e # None THEN EnvVar(e)
    ELSE Default

determine_model_priority(c, e) ==
    IF c.model # None THEN CliFlag(c.model)
    ELSE IF c.task # None THEN Task(c.task)
    ELSE IF e # None THEN EnvVar(e)
    ELSE Default

resolve_model_priority_FallThrough(p, d) ==
    CASE p.kind = "CliFlag" -> Ok(p.v)
      [] p.kind = "EnvVar" -> Ok(p.v)
      [] p.kind = "Task" ->
            LET registry == load_model_registry(d)
            IN  IF ~registry.ok THEN registry
                ELSE IF p.v \in DOMAIN registry.val.task_mappings
                     THEN Ok(registry.val.task_mappings[p.v])
                     ELSE Ok(registry.val.default_model)
      [] p.kind = "Default" ->
            LET registry == load_model_registry(d)
            IN  IF ~registry.ok THEN registry
                ELSE Ok(registry.val.default_model)

resolve_model_priority(p, d) ==
    CASE p.kind = "CliFlag" -> Ok(p.v)
      [] p.kind = "EnvVar" -> Ok(p.v)
      [] p.kind = "Task" ->
            LET registry == load_model_registry(d)
            IN  IF ~registry.ok THEN registry
                ELSE IF p.v \in DOMAIN registry.val.task_mappings
                     THEN Ok(registry.val.task_mappings[p.v])
                     ELSE [Err("Unknown task type") EXCEPT
                               !.detail = DOMAIN registry.val.task_mappings]
      [] p.kind = "Default" ->
            LET registry == load_model_registry(d)
            IN  IF ~registry.ok THEN registry
                ELSE Ok(registry.val.default_model)

select_model(c, e, d) == resolve_model_priority(determine_model_priority(c, e), d)

IsSlowSpeed(s) == s = "moderate" \/ s = "slow"

IsFastSpeed(s) == s = "fast" \/ s = "very-fast"

\* registry.models.iter().find(|m| m.name == selected_model)
\* (Iterator::find: the index of the first match, 0 for None)
find_model_info(ms, name) ==
    LET hits == {i \in 1..Len(ms) : ms[i].name = name}
    IN  IF hits = {} THEN 0 ELSE CHOOSE i \in hits : \A j \in hits : i <= j

find_fast_model_Last(ms) ==
    LET hits == {i \in 1..Len(ms) : IsFastSpeed(ms[i].speed)}
    IN  IF hits = {} THEN 0 ELSE CHOOSE i \in hits : \A j \in hits : i >= j

\* registry.models.iter().find(|m| m.speed == "fast" || m.speed == "very-fast")
find_fast_model(ms) ==
    LET hits == {i \in 1..Len(ms) : IsFastSpeed(ms[i].speed)}
    IN  IF hits = {} THEN 0 ELSE CHOOSE i \in hits : \A j \in hits : i <= j

\* The two messages select_model_adaptive writes to the diagnostic stream.
SlowWarning(model, speed, fc) ==
    [kind |-> "slow-model-warning", model |-> model, speed |-> speed, file_count |-> fc]

FasterNotice(was, fc) ==
    [kind |-> "using-faster-model", model |-> was, speed |-> None, file_count |-> fc]

WithNotes(r, ns) == [r EXCEPT !.notes = ns]

\* The branch of select_model_adaptive taken when --model is given.
adaptive_explicit(selected_model, d, file_count) ==
    IF file_count > 1
    THEN LET registry == load_model_registry(d)
         IN  IF ~registry.ok THEN registry
             ELSE LET ms == registry.val.models
                      i == find_model_info(ms, selected_model)
                  IN  IF i # 0 /\ IsSlowSpeed(ms[i].speed)
                      THEN WithNotes(Ok(selected_model),
                                     <<SlowWarning(selected_model, ms[i].speed, file_count)>>)
                      ELSE Ok(selected_model)
    ELSE Ok(selected_model)

adaptive_switch_UnknownIsSlow(selected_model, d, file_count) ==
    IF file_count > 1
    THEN LET registry == load_model_registry(d)
         IN  IF ~registry.ok THEN registry
             ELSE LET ms == registry.val.models
                      i == find_model_info(ms, selected_model)
                  IN  IF (i = 0 \/ IsSlowSpeed(ms[i].speed)) /\ file_count > 1
                      THEN LET f == find_fast_model(ms)
                               note == <<FasterNotice(selected_model, file_count)>>
                           IN  IF f # 0 THEN WithNotes(Ok(ms[f].name), note)
                               ELSE WithNotes(Ok(selected_model), note)
                      ELSE Ok(selected_model)
    ELSE Ok(selected_model)

\* The branch of select_model_adaptive taken without --model.
adaptive_switch(selected_model, d, file_count) ==
    IF file_count > 1
    THEN LET registry == load_model_registry(d)
         IN  IF ~registry.ok THEN registry
             ELSE LET ms == registry.val.models
                      i == find_model_info(ms, selected_model)
                  IN  IF i # 0 /\ IsSlowSpeed(ms[i].speed) /\ file_count > 1
                      THEN LET f == find_fast_model(ms)
                               note == <<FasterNotice(selected_model, file_count)>>
                           IN  IF f # 0 THEN WithNotes(Ok(ms[f].name), note)
                               ELSE WithNotes(Ok(selected_model), note)
                      ELSE Ok(selected_model)
    ELSE Ok(selected_model)

select_model_adaptive(c, e, d, file_count) ==
    LET selected == select_model(c, e, d)
    IN  IF ~selected.ok THEN selected
        ELSE IF c.model # None
             THEN adaptive_explicit(selected.val, d, file_count)
             ELSE adaptive_switch(selected.val, d, file_count)

-----------------------------------------------------------------------------
(* Text: str::trim, str::split, str::lines, starts_with, ends_with.        *)

IsWhitespace(ch) == ch \in {" ", "\t", "\n", "\r"}

RECURSIVE TrimStart(_)
TrimStart(s) ==
    IF s # <<>> /\ IsWhitespace(Head(s)) THEN TrimStart(Tail(s)) ELSE s

RECURSIVE TrimEnd(_)
TrimEnd(s) ==
    IF s # <<>> /\ IsWhitespace(s[Len(s)]) THEN TrimEnd(SubSeq(s, 1, Len(s) - 1)) ELSE s

Trim(s) == TrimEnd(TrimStart(s))

\* str::split(sep): the pieces between separators, k separators give k + 1
\* pieces, so the empty text gives one empty piece.
RECURSIVE SplitFrom(_, _, _)
SplitFrom(s, sep, piece) ==
    IF s = <<>> THEN <<piece>>
    ELSE IF Head(s) = sep THEN <<piece>> \o SplitFrom(Tail(s), sep, <<>>)
    ELSE SplitFrom(Tail(s), sep, Append(piece, Head(s)))

Split(s, sep) == SplitFrom(s, sep, <<>>)

StripCr(l) == IF l # <<>> /\ l[Len(l)] = "\r" THEN SubSeq(l, 1, Len(l) - 1) ELSE l

\* str::lines(): split at "\n", a final empty line is not a line, and a
\* "\r" before the "\n" belongs to the line ending.
Lines(s) ==
    LET pieces == Split(s, "\n")
        kept == IF pieces[Len(pieces)] = <<>>
                THEN SubSeq(pieces, 1, Len(pieces) - 1) ELSE pieces
    IN  [i \in 1..Len(kept) |-> StripCr(kept[i])]

StartsWith(s, prefix) ==
    Len(prefix) <= Len(s) /\ SubSeq(s, 1, Len(prefix)) = prefix

EndsWith(s, suffix) ==
    Len(suffix) <= Len(s) /\ SubSeq(s, Len(s) - Len(suffix) + 1, Len(s)) = suffix

Contains(s, ch) == \E i \in 1..Len(s) : s[i] = ch

\* .map(|s| s.trim()) over the pieces or lines
TrimAll(xs) == [i \in 1..Len(xs) |-> Trim(xs[i])]

\* Path::file_name: the last component of the path, None (the empty text
\* here) when there is none or when it is "..".
file_name(path) ==
    LET NotCurDir(c) == c # <<>> /\ c # <<".">>
        comps == SelectSeq(Split(path, "/"), NotCurDir)
    IN  IF comps = <<>> \/ comps[Len(comps)] = <<".", ".">> THEN <<>>
        ELSE comps[Len(comps)]

Unknown == <<"u", "n", "k", "n", "o", "w", "n">>

\* file_path.file_name().and_then(|n| n.to_str()).unwrap_or("unknown")
display_name(path) == IF file_name(path) = <<>> THEN Unknown ELSE file_name(path)

-----------------------------------------------------------------------------
(* File discovery.                                                         *)

OkFiles(fs) == [ok |-> TRUE, files |-> fs, err |-> None]

ErrFiles(e) == [ok |-> FALSE, files |-> <<>>, err |-> e]

\* handle_files: files_str.split(',').map(|s| PathBuf::from(s.trim())).collect()
split_files(files_str) == TrimAll(Split(files_str, ","))

matches_pattern_FullPath(path, pattern) ==
    LET filename == path
        Dot(e) == <<".">> \o e
    IN  IF pattern = <<"*">> THEN TRUE
        ELSE IF StartsWith(pattern, <<"*", ".">>)
        THEN LET ext == SubSeq(pattern, 3, Len(pattern))
             IN  IF Contains(ext, ",") \/ Contains(ext, "{")
                 THEN LET extensions ==
                              IF StartsWith(ext, <<"{">>) /\ EndsWith(ext, <<"}">>)
                              THEN Split(SubSeq(ext, 2, Len(ext) - 1), ",")
                              ELSE <<ext>>
                      IN  \E i \in 1..Len(extensions) : EndsWith(filename, Dot(extensions[i]))
                 ELSE EndsWith(filename, Dot(ext))
        ELSE filename = pattern

\* matches_pattern
matches_pattern(path, pattern) ==
    LET filename == file_name(path)
        Dot(e) == <<".">> \o e
    IN  IF pattern = <<"*">> THEN TRUE
        ELSE IF StartsWith(pattern, <<"*", ".">>)
        THEN LET ext == SubSeq(pattern, 3, Len(pattern))
             IN  IF Contains(ext, ",") \/ Contains(ext, "{")
                 THEN LET extensions ==
                              IF StartsWith(ext, <<"{">>) /\ EndsWith(ext, <<"}">>)
                              THEN Split(SubSeq(ext, 2, Len(ext) - 1), ",")
                              ELSE <<ext>>
                      IN  \E i \in 1..Len(extensions) : EndsWith(filename, Dot(extensions[i]))
                 ELSE EndsWith(filename, Dot(ext))
        ELSE filename = pattern

\* A directory entry as visit_dirs sees it.  A directory that cannot be
\* listed makes fs::read_dir fail.
File(n) == [name |-> n, kind |-> "file", listable |-> FALSE, children |-> <<>>]

Dir(n, cs) == [name |-> n, kind |-> "dir", listable |-> TRUE, children |-> cs]

LockedDir(n) == [name |-> n, kind |-> "dir", listable |-> FALSE, children |-> <<>>]

Absent(n) == [name |-> n, kind |-> "absent", listable |-> FALSE, children |-> <<>>]

TargetName == <<"t", "a", "r", "g", "e", "t">>

NodeModulesName == <<"n", "o", "d", "e", "_", "m", "o", "d", "u", "l", "e", "s">>

IsSkippedDir_HiddenOnly(name) == StartsWith(name, <<".">>)

\* name.starts_with('.') || name == "target" || name == "node_modules"
IsSkippedDir(name) ==
    StartsWith(name, <<".">>) \/ name = TargetName \/ name = NodeModulesName

\* collect_files_in_dir::visit_dirs; visit_entries is its for loop from the
\* i-th entry on.  An error leaves the loop and the function at once.
RECURSIVE visit_dirs(_, _, _)
RECURSIVE visit_entries(_, _, _, _)
visit_dirs(node, path, pattern) ==
    IF node.kind # "dir" THEN OkFiles(<<>>)
    ELSE IF ~node.listable THEN ErrFiles("Failed to read directory")
    ELSE visit_entries(node.children, 1, path, pattern)

visit_entries(entries, i, path, pattern) ==
    IF i > Len(entries) THEN OkFiles(<<>>)
    ELSE LET entry == entries[i]
             p == path \o <<"/">> \o entry.name
             found ==
                 IF entry.kind = "dir"
                 THEN (IF IsSkippedDir(entry.name) THEN OkFiles(<<>>)
                       ELSE visit_dirs(entry, p, pattern))
                 ELSE IF entry.kind = "file" /\ matches_pattern(p, pattern)
                      THEN OkFiles(<<p>>)
                      ELSE OkFiles(<<>>)
         IN  IF ~found.ok THEN found
             ELSE LET rest == visit_entries(entries, i + 1, path, pattern)
                  IN  IF ~rest.ok THEN rest ELSE OkFiles(found.files \o rest.files)

collect_files_in_dir(tree, pattern) == visit_dirs(tree, tree.name, pattern)

\* One git invocation: whether the command could be run and gave UTF-8, and
\* its standard output.
GitOut(text) == [ok |-> TRUE, out |-> text]

GitFailed == [ok |-> FALSE, out |-> <<>>]

fetch_changed_files_NoTrim(staged, unstaged) ==
    IF ~staged.ok
    THEN [ok |-> FALSE, stdout |-> <<>>, fallback |-> FALSE,
          err |-> "Failed to execute git diff --cached"]
    ELSE IF staged.out = <<>>
         THEN (IF ~unstaged.ok
               THEN [ok |-> FALSE, stdout |-> <<>>, fallback |-> TRUE,
                     err |-> "Failed to execute git diff"]
               ELSE [ok |-> TRUE, stdout |-> unstaged.out, fallback |-> TRUE, err |-> None])
         ELSE [ok |-> TRUE, stdout |-> staged.out, fallback |-> FALSE, err |-> None]

\* GitDiff::fetch_changed_files: the stdout kept, and whether the second
\* command was run.
fetch_changed_files(staged, unstaged) ==
    IF ~staged.ok
    THEN [ok |-> FALSE, stdout |-> <<>>, fallback |-> FALSE,
          err |-> "Failed to execute git diff --cached"]
    ELSE IF Trim(staged.out) = <<>>
         THEN (IF ~unstaged.ok
               THEN [ok |-> FALSE, stdout |-> <<>>, fallback |-> TRUE,
                     err |-> "Failed to execute git diff"]
               ELSE [ok |-> TRUE, stdout |-> unstaged.out, fallback |-> TRUE, err |-> None])
         ELSE [ok |-> TRUE, stdout |-> staged.out, fallback |-> FALSE, err |-> None]

\* GitDiff::parse_changed_files
parse_changed_files(text) ==
    LET NotBlank(line) == Trim(line) # <<>>
    IN  TrimAll(SelectSeq(Lines(text), NotBlank))

-----------------------------------------------------------------------------
(* The command line.                                                       *)

\* --pattern not given
NoPattern == <<None>>

\* struct Cli after Cli::parse(); mode is which of --git-diff, --files, --dir
\* main finds first, "none" when none is given.
DefaultCli ==
    [mode |-> "none", model |-> None, task |-> None, files |-> <<>>,
     pattern |-> NoPattern, dry_run |-> FALSE, runs |-> 1,
     validation_mode |-> FALSE, show_metrics |-> FALSE]

ModelFlags == {None, "a"}

TaskFlags == {None, "quick-review", "nonexistent-task"}

EnvModels == {None, "b"}

NoInput == [staged |-> <<>>, unstaged |-> <<>>, tree |-> <<>>]

NoSelection == [file_count |-> 0, base |-> Err(None), adaptive |-> Err(None)]

\* What every specification starts from, the inputs apart.
Idle ==
    /\ files = <<>>
    /\ idx = 0
    /\ run_num = 0
    /\ results = <<>>
    /\ durations = <<>>
    /\ sections = <<>>
    /\ stdout = <<>>
    /\ stderr = <<>>
    /\ exit_code = -1
    /\ trace = <<>>
    /\ sel = NoSelection

-----------------------------------------------------------------------------
(* Reviewing one file.                                                     *)

\* The files std::fs::read_to_string can read; any other path fails.
ReadableFiles ==
    {<<"a">>, <<"b">>, <<"d", "/", "a">>, <<"d", "/", "b">>, <<"d", "/", "s", "/", "a">>}

\* What the backend does with one request: whether the request could be
\* sent, the HTTP status class, and the body: either a JSON document of the
\* expected shape holding message.content = text, or the raw text itself.
Response(sent, success, json, text) ==
    [sent |-> sent, success |-> success, json |-> json, text |-> text]

Responses ==
    {Response(FALSE, FALSE, FALSE, <<>>),
     Response(TRUE, FALSE, FALSE, <<>>),
     Response(TRUE, TRUE, FALSE, <<>>),
     Response(TRUE, TRUE, FALSE, <<" ", "\n">>),
     Response(TRUE, TRUE, FALSE, <<"{">>),
     Response(TRUE, TRUE, TRUE, <<>>),
     Response(TRUE, TRUE, TRUE, <<" ">>),
     Response(TRUE, TRUE, TRUE, <<"r">>)}

NoResponse == Response(FALSE, FALSE, FALSE, <<"-">>)

call_ollama_NoContentCheck(resp) ==
    IF ~resp.sent THEN Err("Failed to send request to Ollama")
    ELSE IF ~resp.success THEN Err("Ollama API returned error")
    ELSE IF ~resp.json /\ Trim(resp.text) = <<>> THEN Err("Ollama returned empty response")
    ELSE IF ~resp.json THEN Err("Failed to parse Ollama response")
    ELSE Ok([kind |-> "review", content |-> resp.text])

\* call_ollama, from the response on
call_ollama(resp) ==
    IF ~resp.sent THEN Err("Failed to send request to Ollama")
    ELSE IF ~resp.success THEN Err("Ollama API returned error")
    ELSE IF ~resp.json /\ Trim(resp.text) = <<>> THEN Err("Ollama returned empty response")
    ELSE IF ~resp.json THEN Err("Failed to parse Ollama response")
    ELSE IF Trim(resp.text) = <<>> THEN Err("Ollama returned empty content")
    ELSE Ok([kind |-> "review", content |-> resp.text])

\* The outcome of one review_file_with_count call: the Result, what
\* select_model_adaptive wrote to the diagnostic stream, and how far the call
\* got (model selected, file read, backend invoked with which response).
Call(r, notes, model, read, resp) ==
    [ok |-> r.ok, val |-> r.val, err |-> r.err, notes |-> notes, model |-> model,
     read |-> read, invoked |-> resp # NoResponse, response |-> resp]

review_file_with_count_ReadFirst(c, e, d, file_path, file_count, resp) ==
    LET selected == select_model_adaptive(c, e, d, file_count)
    IN  IF file_path \notin ReadableFiles
        THEN Call(Err("Failed to read file"), <<>>, None, FALSE, NoResponse)
        ELSE IF ~selected.ok THEN Call(selected, <<>>, None, TRUE, NoResponse)
        ELSE IF c.dry_run
        THEN Call(Ok([kind |-> "dry-run", model |-> selected.val,
                      file |-> display_name(file_path)]),
                  selected.notes, selected.val, TRUE, NoResponse)
        ELSE Call(call_ollama(resp), selected.notes, selected.val, TRUE, resp)

review_file_with_count_CallFirst(c, e, d, file_path, file_count, resp) ==
    LET selected == select_model_adaptive(c, e, d, file_count)
    IN  IF ~selected.ok THEN Call(selected, <<>>, None, FALSE, NoResponse)
        ELSE IF file_path \notin ReadableFiles
        THEN Call(Err("Failed to read file"), selected.notes, selected.val, FALSE, NoResponse)
        ELSE IF c.dry_run /\ call_ollama(resp).ok
        THEN Call(Ok([kind |-> "dry-run", model |-> selected.val,
                      file |-> display_name(file_path)]),
                  selected.notes, selected.val, TRUE, resp)
        ELSE Call(call_ollama(resp), selected.notes, selected.val, TRUE, resp)

review_file_with_count(c, e, d, file_path, file_count, resp) ==
    LET selected == select_model_adaptive(c, e, d, file_count)
    IN  IF ~selected.ok THEN Call(selected, <<>>, None, FALSE, NoResponse)
        ELSE IF file_path \notin ReadableFiles
        THEN Call(Err("Failed to read file"), selected.notes, selected.val, FALSE, NoResponse)
        ELSE IF c.dry_run
        THEN Call(Ok([kind |-> "dry-run", model |-> selected.val,
                      file |-> display_name(file_path)]),
                  selected.notes, selected.val, TRUE, NoResponse)
        ELSE Call(call_ollama(resp), selected.notes, selected.val, TRUE, resp)

format_validation_report_AlwaysMetrics(rs, ds, show_metrics) ==
    [kind |-> "validation-report",
     total_runs |-> Len(rs),
     averaged |-> ds,
     has_metrics |-> TRUE,
     metrics |-> [i \in 1..Len(ds) |-> [run |-> i, duration |-> ds[i]]],
     runs |-> rs]

\* format_validation_report
format_validation_report(rs, ds, show_metrics) ==
    [kind |-> "validation-report",
     total_runs |-> Len(rs),
     averaged |-> ds,
     has_metrics |-> show_metrics,
     metrics |-> IF show_metrics THEN [i \in 1..Len(ds) |-> [run |-> i, duration |-> ds[i]]]
                 ELSE <<>>,
     runs |-> rs]

finish_multi_run_AnyFailure(c, rs, ds) ==
    IF Len(rs) < c.runs THEN Err("All validation runs failed")
    ELSE IF c.validation_mode THEN Ok(format_validation_report(rs, ds, c.show_metrics))
    ELSE Ok([kind |-> "runs", runs |-> rs])

\* review_file_multi_run after its for loop
finish_multi_run(c, rs, ds) ==
    IF rs = <<>> THEN Err("All validation runs failed")
    ELSE IF c.validation_mode THEN Ok(format_validation_report(rs, ds, c.show_metrics))
    ELSE Ok([kind |-> "runs", runs |-> rs])

\* Lines of the two streams.
Log(kind, path, detail) == [kind |-> kind, path |-> path, detail |-> detail]

Heading(title) == [kind |-> "heading", title |-> title]

Section(name, markdown) == [kind |-> "section", file_name |-> name, body |-> markdown]

\* history: one review_file_with_count call
Attempt(i, path, run, r) ==
    [file |-> i, path |-> path, run |-> run, ok |-> r.ok, val |-> r.val, err |-> r.err,
     model |-> r.model, read |-> r.read, invoked |-> r.invoked, response |-> r.response]

-----------------------------------------------------------------------------
(* Spec: one invocation of the program, from main to the exit code.        *)

FileChars == {",", " ", "a", "b"}

FilesArgs == SeqsUpTo(FileChars, MaxStrLen)

GitChars == {"\n", " ", "a"}

StagedOutputs == {GitFailed} \cup {GitOut(t) : t \in SeqsUpTo(GitChars, MaxStrLen)}

UnstagedOutputs ==
    {GitFailed, GitOut(<<>>), GitOut(<<"b">>), GitOut(<<"b", "\n", "a", "\n">>)}

DirTrees ==
    {Absent(<<"d">>),
     LockedDir(<<"d">>),
     Dir(<<"d">>, <<>>),
     Dir(<<"d">>, <<File(<<"b">>), File(<<"a">>)>>),
     Dir(<<"d">>, <<File(<<"x">>), File(<<"a">>)>>),
     Dir(<<"d">>, <<Dir(<<".", "h">>, <<File(<<"a">>)>>), File(<<"b">>)>>),
     Dir(<<"d">>, <<Dir(<<"s">>, <<File(<<"a">>)>>), File(<<"b">>)>>),
     Dir(<<"d">>, <<File(<<"a">>), LockedDir(<<"s">>)>>)}

Patterns == {NoPattern, <<"a">>}

\* The registry document of the invocations: a slow default model and a
\* fast one after it.
PipelineRegistry ==
    Registry(<<[name |-> "a", speed |-> "slow"], [name |-> "b", speed |-> "fast"]>>,
             [t \in TaskLabels |-> "c"], "a")

PipelineDisks == {NoRegistry("missing"), NoRegistry("malformed"), PipelineRegistry}

PipelineResponses ==
    {Response(FALSE, FALSE, FALSE, <<>>), Response(TRUE, TRUE, TRUE, <<"r">>)}

\* Wall-clock seconds of one successful run.
Durations == {1, 2}

Configuration(c, d) == [cli |-> c, disk |-> d]

\* Single-run invocations: every model flag, task flag and registry state.
SelectionConfigurations ==
    {Configuration([DefaultCli EXCEPT !.model = m, !.task = t, !.dry_run = dr], d) :
        m \in ModelFlags, t \in {None, "nonexistent-task"}, dr \in BOOLEAN,
        d \in PipelineDisks}

\* Multi-run invocations: every run count and reporting flag, with a model
\* selection that succeeds and one that fails.
RunConfigurations ==
    {Configuration([DefaultCli EXCEPT !.task = t, !.dry_run = dr, !.runs = n,
                                      !.validation_mode = vm, !.show_metrics = sm],
                   PipelineRegistry) :
        t \in {None, "nonexistent-task"}, dr \in BOOLEAN, n \in 2..MaxRuns,
        vm \in BOOLEAN, sm \in BOOLEAN}

Configurations == SelectionConfigurations \cup RunConfigurations

Init ==
    /\ \E o \in Configurations :
        /\ disk = o.disk
        /\ \/ /\ cli = o.cli
              /\ input = NoInput
           \/ /\ \E f \in FilesArgs : cli = [o.cli EXCEPT !.mode = "files", !.files = f]
              /\ input = NoInput
           \/ /\ cli = [o.cli EXCEPT !.mode = "git"]
              /\ \E st \in StagedOutputs, un \in UnstagedOutputs :
                     input = [NoInput EXCEPT !.staged = st, !.unstaged = un]
           \/ /\ \E p \in Patterns : cli = [o.cli EXCEPT !.mode = "dir", !.pattern = p]
              /\ \E t \in DirTrees : input = [NoInput EXCEPT !.tree = t]
    /\ env_model = None
    /\ pc = "main"
    /\ Idle

config == <<cli, env_model, disk, input>>

\* main
Main ==
    /\ pc = "main"
    /\ IF cli.mode = "git" THEN pc' = "handle_git_diff" /\ UNCHANGED <<stderr, exit_code>>
       ELSE IF cli.mode = "files" THEN pc' = "handle_files" /\ UNCHANGED <<stderr, exit_code>>
       ELSE IF cli.mode = "dir" THEN pc' = "handle_directory" /\ UNCHANGED <<stderr, exit_code>>
       ELSE /\ stderr' = Append(stderr, Log("Error", <<>>, "Must specify one of: --files, --git-diff, or --dir"))
            /\ exit_code' = 1
            /\ pc' = "exit"
    /\ UNCHANGED <<config, files, idx, run_num, results, durations, sections, stdout,
                   trace, sel>>

\* The end of a handler that reviews nothing: Ok(()) or Err from main.
Leave(line, code) ==
    /\ stderr' = Append(stderr, line)
    /\ exit_code' = code
    /\ pc' = "exit"
    /\ UNCHANGED files

\* The entry of the per-file loop (review_multiple_files, and the same loop
\* in handle_git_diff).
Enter(fs) ==
    /\ files' = fs
    /\ stderr' = Append(stderr, Log("Reviewing files", <<>>, Len(fs)))
    /\ pc' = "loop"
    /\ UNCHANGED exit_code

\* handle_files
HandleFiles ==
    /\ pc = "handle_files"
    /\ LET file_paths == split_files(cli.files)
       IN  IF file_paths = <<>>
           THEN Leave(Log("No files specified", <<>>, None), 0)
           ELSE Enter(file_paths)
    /\ UNCHANGED <<config, idx, run_num, results, durations, sections, stdout, trace, sel>>

\* handle_git_diff up to its loop
HandleGitDiff ==
    /\ pc = "handle_git_diff"
    /\ LET git_diff == fetch_changed_files(input.staged, input.unstaged)
           changed_files == parse_changed_files(git_diff.stdout)
       IN  IF ~git_diff.ok THEN Leave(Log("Error", <<>>, git_diff.err), 1)
           ELSE IF changed_files = <<>>
           THEN Leave(Log("No changed files found", <<>>, None), 0)
           ELSE Enter(changed_files)
    /\ UNCHANGED <<config, idx, run_num, results, durations, sections, stdout, trace, sel>>

\* cli.pattern.as_deref().unwrap_or("*")
pattern_or_default(c) == IF c.pattern = NoPattern THEN <<"*">> ELSE c.pattern

\* handle_directory
HandleDirectory ==
    /\ pc = "handle_directory"
    /\ LET found == collect_files_in_dir(input.tree, pattern_or_default(cli))
       IN  IF ~found.ok THEN Leave(Log("Error", <<>>, found.err), 1)
           ELSE IF found.files = <<>>
           THEN Leave(Log("No files found matching pattern", <<>>, None), 0)
           ELSE Enter(found.files)
    /\ UNCHANGED <<config, idx, run_num, results, durations, sections, stdout, trace, sel>>

Collect_AbortOnError(path, r) ==
    /\ sections' = IF r.ok THEN Append(sections, Section(display_name(path), r.val))
                   ELSE sections
    /\ idx' = IF r.ok THEN idx + 1 ELSE Len(files)

Collect_Prepend(path, r) ==
    /\ sections' = IF r.ok THEN <<Section(display_name(path), r.val)>> \o sections
                   ELSE sections
    /\ idx' = idx + 1

\* The match on review_file_multi_run's result in the per-file loop.
Collect(path, r) ==
    /\ sections' = IF r.ok THEN Append(sections, Section(display_name(path), r.val))
                   ELSE sections
    /\ idx' = idx + 1

ErrorLine_Silent(path, r) == <<>>

ErrorLine(path, r) == IF r.ok THEN <<>> ELSE <<Log("Error reviewing", path, r.err)>>

\* One iteration of the per-file loop when --runs is 1 (or 0), the backend
\* answering with one of the responses.
ReviewFileWith(responses) ==
    /\ pc = "loop" /\ idx < Len(files) /\ cli.runs <= 1
    /\ \E resp \in responses :
        LET path == files[idx + 1]
            r == review_file_with_count(cli, env_model, disk, path, Len(files), resp)
        IN  /\ trace' = Append(trace, Attempt(idx + 1, path, 1, r))
            /\ stderr' = stderr \o <<Log("Reviewing", path, None)>> \o r.notes
                                \o ErrorLine(path, r)
            /\ Collect(path, r)
    /\ UNCHANGED <<config, pc, files, run_num, results, durations, stdout, exit_code, sel>>

ReviewFile == ReviewFileWith(PipelineResponses)

\* The start of an iteration when --runs is greater than 1.
BeginRuns ==
    /\ pc = "loop" /\ idx < Len(files) /\ cli.runs > 1
    /\ stderr' = Append(stderr, Log("Reviewing", files[idx + 1], None))
    /\ run_num' = 0
    /\ results' = <<>>
    /\ durations' = <<>>
    /\ pc' = "runs"
    /\ UNCHANGED <<config, files, idx, sections, stdout, exit_code, trace, sel>>

\* One iteration of review_file_multi_run's for loop, the backend answering
\* with one of the responses.
RunOnceWith(responses) ==
    /\ pc = "runs" /\ run_num < cli.runs
    /\ \E resp \in responses, duration \in Durations :
        LET path == files[idx + 1]
            r == review_file_with_count(cli, env_model, disk, path, Len(files), resp)
        IN  /\ trace' = Append(trace, Attempt(idx + 1, path, run_num + 1, r))
            /\ stderr' = stderr \o <<Log("Run", path, run_num + 1)>> \o r.notes
                                \o (IF r.ok THEN <<>>
                                    ELSE <<Log("Run failed", path, run_num + 1)>>)
            /\ results' = IF r.ok THEN Append(results, r.val) ELSE results
            /\ durations' = IF r.ok THEN Append(durations, duration) ELSE durations
    /\ run_num' = run_num + 1
    /\ UNCHANGED <<config, pc, files, idx, sections, stdout, exit_code, sel>>

RunOnce == RunOnceWith(PipelineResponses)

\* review_file_multi_run after its for loop, and the match on its result.
FinishRuns ==
    /\ pc = "runs" /\ run_num >= cli.runs
    /\ LET path == files[idx + 1]
           r == finish_multi_run(cli, results, durations)
       IN  /\ stderr' = stderr \o ErrorLine(path, r)
           /\ Collect(path, r)
    /\ run_num' = 0
    /\ results' = <<>>
    /\ durations' = <<>>
    /\ pc' = "loop"
    /\ UNCHANGED <<config, files, stdout, exit_code, trace, sel>>

NoReviews == Heading("# No Reviews Generated")

ReviewHeading(c) ==
    IF c.mode = "git" THEN Heading("# Git Diff Review") ELSE Heading("# Code Review")

EmitOutput_FailWhenEmpty ==
    /\ pc = "loop" /\ idx = Len(files)
    /\ stdout' = IF sections = <<>> THEN <<NoReviews>>
                 ELSE <<ReviewHeading(cli)>> \o sections
    /\ exit_code' = IF sections = <<>> THEN 1 ELSE 0
    /\ pc' = "exit"
    /\ UNCHANGED <<config, files, idx, run_num, results, durations, sections, stderr,
                   trace, sel>>

EmitOutput_AlwaysHeading ==
    /\ pc = "loop" /\ idx = Len(files)
    /\ stdout' = <<ReviewHeading(cli)>> \o sections
    /\ exit_code' = 0
    /\ pc' = "exit"
    /\ UNCHANGED <<config, files, idx, run_num, results, durations, sections, stderr,
                   trace, sel>>

\* The aggregated output after the per-file loop.
EmitOutput ==
    /\ pc = "loop" /\ idx = Len(files)
    /\ stdout' = IF sections = <<>> THEN <<NoReviews>>
                 ELSE <<ReviewHeading(cli)>> \o sections
    /\ exit_code' = 0
    /\ pc' = "exit"
    /\ UNCHANGED <<config, files, idx, run_num, results, durations, sections, stderr,
                   trace, sel>>

Next ==
    \/ Main
    \/ HandleFiles
    \/ HandleGitDiff
    \/ HandleDirectory
    \/ ReviewFile
    \/ BeginRuns
    \/ RunOnce
    \/ FinishRuns
    \/ EmitOutput

Spec == Init /\ [][Next]_vars

-----------------------------------------------------------------------------
(* Properties of an invocation.                                            *)

\* The review_file_with_count calls made for the i-th file of the list.
AttemptsOf(i) == {k \in DOMAIN trace : trace[k].file = i}

Succeeded(i) == \E k \in AttemptsOf(i) : trace[k].ok

\* The lines of the diagnostic stream of one kind, in order.
LogLines(kind) == LET OfKind(l) == l.kind = kind IN SelectSeq(stderr, OfKind)

\* The per-file loop has been left.
LoopDone == pc = "exit" /\ files # <<>>

RunsPerFile == IF cli.runs <= 1 THEN 1 ELSE cli.runs

\* The indices of the files reviewed with success, in list order.
SucceededIndices ==
    SelectSeq([i \in 1..Len(files) |-> i], Succeeded)

\* C4: whatever files fail, after the per-file loop every file of the
\* discovered list has been attempted exactly once, in list order.
C4_EveryFileAttemptedOnce ==
    /\ LoopDone =>
           /\ Len(LogLines("Reviewing")) = Len(files)
           /\ \A i \in 1..Len(files) :
                  /\ LogLines("Reviewing")[i].path = files[i]
                  /\ Cardinality(AttemptsOf(i)) = RunsPerFile
                  /\ \A k \in AttemptsOf(i) : trace[k].path = files[i]
    /\ \A k \in DOMAIN trace : k > 1 => trace[k].file >= trace[k - 1].file

\* The first file could not be read, and the second was reviewed all the same.
C4_Witness ==
    /\ LoopDone
    /\ Len(files) >= 2
    /\ ~trace[1].ok /\ trace[1].err = "Failed to read file"
    /\ Succeeded(2)

\* C5: the sections of the aggregated output are the files whose review
\* succeeded, in the order of the discovered list.
C5_SectionsInDiscoveryOrder ==
    /\ pc \in {"loop", "runs"} =>
           \A j \in 1..Len(sections) :
               /\ j <= Len(SucceededIndices)
               /\ sections[j].file_name = display_name(files[SucceededIndices[j]])
    /\ LoopDone =>
           LET emitted == SelectSeq(stdout, LAMBDA l : l.kind = "section")
           IN  /\ Len(emitted) = Len(SucceededIndices)
               /\ \A j \in 1..Len(emitted) :
                      emitted[j].file_name = display_name(files[SucceededIndices[j]])

\* --files "b,a": both reviewed, b's section is emitted before a's.
C5_Witness ==
    /\ LoopDone
    /\ files = <<(<<"b">>), (<<"a">>)>>
    /\ Len(stdout) = 3
    /\ stdout[2].file_name = <<"b">> /\ stdout[3].file_name = <<"a">>

\* Every comma-separated piece of the --files argument is blank.
NoPathsGiven ==
    \A i \in 1..Len(Split(cli.files, ",")) : Trim(Split(cli.files, ",")[i]) = <<>>

\* C6: when discovery yields no file target the program reports "no files"
\* and exits with success without selecting a model or calling the backend,
\* and a --files argument that holds no path yields no file target.
C6_NoFilesNoSelection ==
    pc = "exit" /\ exit_code = 0 =>
        /\ files = <<>> => trace = <<>> /\ stdout = <<>> /\ Len(stderr) = 1
        /\ cli.mode = "files" /\ NoPathsGiven => files = <<>> /\ trace = <<>>

IsConfigError(a) ==
    ~a.ok /\ a.err \in {"Failed to read models.json", "Failed to parse models.json",
                        "Unknown task type"}

\* C7 as claimed: a configuration error aborts the invocation, no file is
\* read and no further file is attempted once it is detected.
C7_ConfigErrorAborts ==
    \A k \in DOMAIN trace :
        IsConfigError(trace[k]) => /\ k = Len(trace)
                                   /\ ~trace[k].read
                                   /\ sections = <<>>

\* C7 as the code has it: a configuration error fails the one review call
\* that meets it, before the file is read and without a section for it; it
\* is logged, every file of the list is still attempted, and the exit code
\* is 0.
C7_ConfigErrorPerFile ==
    /\ \A k \in DOMAIN trace :
           IsConfigError(trace[k]) =>
               /\ ~trace[k].read /\ ~trace[k].invoked
               /\ trace[k].model = None
    /\ (LoopDone /\ \E k \in DOMAIN trace : IsConfigError(trace[k])) =>
           /\ exit_code = 0
           /\ Len(LogLines("Reviewing")) = Len(files)
           /\ \A i \in 1..Len(files) :
                  (\A k \in AttemptsOf(i) : IsConfigError(trace[k])) =>
                      /\ AttemptsOf(i) # {}
                      /\ ~Succeeded(i)
                      /\ \E l \in DOMAIN stderr :
                             stderr[l].kind = "Error reviewing" /\ stderr[l].path = files[i]
           /\ Len(sections) = Len(SucceededIndices)

\* An unknown task label, two readable files: both were attempted.
C7_Witness ==
    /\ LoopDone
    /\ cli.task = "nonexistent-task" /\ cli.model = None
    /\ files = <<(<<"a">>), (<<"b">>)>>
    /\ Len(trace) >= 2
    /\ \A k \in DOMAIN trace : IsConfigError(trace[k]) /\ trace[k].err = "Unknown task type"
    /\ stdout = <<NoReviews>>

\* C8 as claimed: the exit code is non-zero exactly when no mode is given.
C8_ExitCodeOnlyNoMode ==
    pc = "exit" => (exit_code # 0 <=> cli.mode = "none")

\* Some directory that visit_dirs lists cannot be listed.
RECURSIVE HasUnlistable(_)
HasUnlistable(node) ==
    /\ node.kind = "dir"
    /\ \/ ~node.listable
       \/ \E i \in 1..Len(node.children) :
              /\ ~IsSkippedDir(node.children[i].name)
              /\ HasUnlistable(node.children[i])

DiscoveryFails ==
    \/ /\ cli.mode = "git"
       /\ \/ ~input.staged.ok
          \/ Trim(input.staged.out) = <<>> /\ ~input.unstaged.ok
    \/ cli.mode = "dir" /\ HasUnlistable(input.tree)

\* C8 as the code has it: the exit code is non-zero when no mode is given
\* or when discovery itself fails (git cannot be run, a directory cannot be
\* listed), and zero otherwise, whatever file reviews fail.
C8_ExitCode ==
    pc = "exit" =>
        /\ exit_code \in {0, 1}
        /\ exit_code # 0 <=> (cli.mode = "none" \/ DiscoveryFails)
        /\ exit_code # 0 => trace = <<>> /\ stdout = <<>>
                            /\ stderr[Len(stderr)].kind = "Error"

\* Every file of a two-file batch failed, and the exit code is 0.
C8_Witness ==
    /\ LoopDone
    /\ Len(files) >= 2
    /\ \A i \in 1..Len(files) : ~Succeeded(i)
    /\ \E k \in DOMAIN trace : trace[k].invoked
    /\ exit_code = 0

\* C9: a non-empty batch whose every file fails exits with success and
\* prints exactly the "No Reviews Generated" marker; when a file succeeds
\* the marker is not printed and the heading is followed by its sections.
C9_NoReviewsMarker ==
    LoopDone =>
        /\ exit_code = 0
        /\ (\A i \in 1..Len(files) : ~Succeeded(i)) => stdout = <<NoReviews>>
        /\ (\E i \in 1..Len(files) : Succeeded(i)) =>
               /\ Len(stdout) >= 2
               /\ stdout[1] = ReviewHeading(cli)
               /\ \A j \in 2..Len(stdout) : stdout[j].kind = "section"
               /\ \A j \in 1..Len(stdout) : stdout[j] # NoReviews

\* Three files, none reviewed with success: only the marker is printed.
C9_Witness ==
    /\ LoopDone
    /\ Len(files) = 3
    /\ Len(trace) >= 3
    /\ \A i \in 1..Len(files) : ~Succeeded(i)
    /\ stdout = <<NoReviews>>

\* The results of the runs of file i that succeeded, by the history.
OkRuns(i) == {k \in AttemptsOf(i) : trace[k].ok}

\* C10: with --runs N > 1 each file gets exactly N runs, one after the
\* other, whatever runs fail; only the successful runs are aggregated; and
\* the file is reported as failed exactly when all N runs failed.
C10_MultiRun ==
    cli.runs > 1 =>
        /\ \A k \in DOMAIN trace :
               /\ trace[k].run \in 1..cli.runs
               /\ k > 1 /\ trace[k].run # 1 =>
                      trace[k - 1].file = trace[k].file /\ trace[k - 1].run = trace[k].run - 1
               /\ k > 1 /\ trace[k].run = 1 =>
                      trace[k - 1].file = trace[k].file - 1 /\ trace[k - 1].run = cli.runs
        /\ pc = "runs" =>
               /\ Cardinality(AttemptsOf(idx + 1)) = run_num
               /\ Len(results) = Cardinality(OkRuns(idx + 1))
               /\ Len(durations) = Len(results)
        /\ pc \in {"loop", "exit"} =>
               /\ \A i \in 1..idx : Cardinality(AttemptsOf(i)) = cli.runs
               /\ Len(sections) = Cardinality({i \in 1..idx : OkRuns(i) # {}})
               /\ Len(LogLines("Error reviewing"))
                      = Cardinality({i \in 1..idx : OkRuns(i) = {}})
               /\ \A j \in 1..Len(sections) :
                      Len(sections[j].body.runs)
                          = Cardinality(OkRuns(SucceededIndices[j]))

\* --runs 2: the first run of a file failed at the backend, the second was
\* made and succeeded, and the file's section holds that one run.
C10_Witness ==
    /\ cli.runs = 2
    /\ pc = "loop" /\ idx = 1
    /\ Len(trace) = 2
    /\ ~trace[1].ok /\ trace[1].invoked
    /\ trace[2].ok
    /\ Len(sections) = 1 /\ Len(sections[1].body.runs) = 1

\* C11: with --dry-run the backend is never invoked, for any file and any
\* run; a call whose model selection succeeds and whose file can be read
\* yields the dry-run summary naming the selected model; and a call whose
\* selection or read fails is still a failure of that file (or run), logged
\* as such.
C11_DryRunNeverInvokes ==
    cli.dry_run =>
        \A k \in DOMAIN trace :
            LET a == trace[k]
                selected == select_model_adaptive(cli, env_model, disk, Len(files))
            IN  /\ ~a.invoked /\ a.response = NoResponse
                /\ selected.ok /\ a.path \in ReadableFiles =>
                       /\ a.ok
                       /\ a.val.kind = "dry-run"
                       /\ a.val.model = selected.val
                       /\ a.val.file = display_name(a.path)
                /\ ~selected.ok \/ a.path \notin ReadableFiles =>
                       /\ ~a.ok
                       /\ \E l \in DOMAIN stderr :
                              /\ stderr[l].kind = IF cli.runs <= 1 THEN "Error reviewing"
                                                  ELSE "Run failed"
                              /\ stderr[l].path = a.path
                              /\ cli.runs > 1 => stderr[l].detail = a.run

\* A dry run over two files: one could not be read, the other yielded the
\* dry-run summary naming the substituted fast model, as the only section.
C11_Witness ==
    /\ cli.dry_run
    /\ LoopDone
    /\ Len(files) = 2
    /\ \E i, j \in DOMAIN trace :
           /\ ~trace[i].ok /\ trace[i].err = "Failed to read file"
           /\ trace[j].ok /\ trace[j].val.model = "b"
    /\ Len(stdout) = 2
    /\ stdout[2].body.kind = "dry-run" /\ stdout[2].body.model = "b"

-----------------------------------------------------------------------------
(* SpecSelect: the selectors applied to every combination of sources.      *)

InitSelect ==
    /\ \E m \in ModelFlags, t \in TaskFlags :
           cli = [DefaultCli EXCEPT !.model = m, !.task = t]
    /\ env_model \in EnvModels
    /\ disk \in DiskStates
    /\ input = NoInput
    /\ pc = "select"
    /\ Idle

CallSelectModel ==
    /\ pc = "select"
    /\ sel' = [sel EXCEPT !.base = select_model(cli, env_model, disk)]
    /\ pc' = "adaptive"
    /\ UNCHANGED <<cli, env_model, disk, input, files, idx, run_num, results,
                   durations, sections, stdout, stderr, exit_code, trace>>

CallSelectModelAdaptive ==
    /\ pc = "adaptive"
    /\ \E fc \in 0..MaxFileCount :
           LET r == select_model_adaptive(cli, env_model, disk, fc)
           IN  /\ sel' = [sel EXCEPT !.file_count = fc, !.adaptive = r]
               /\ stderr' = stderr \o r.notes
    /\ pc' = "selected"
    /\ UNCHANGED <<cli, env_model, disk, input, files, idx, run_num, results,
                   durations, sections, stdout, exit_code, trace>>

NextSelect == CallSelectModel \/ CallSelectModelAdaptive

SpecSelect == InitSelect /\ [][NextSelect]_vars

\* The same model or the same failure.
SameOutcome(r1, r2) == r1.ok = r2.ok /\ r1.val = r2.val /\ r1.err = r2.err

\* C1: model resolution uses the highest-priority source present, in the
\* order --model > --task > MODEL_NAME > registry default, and its outcome
\* does not depend on any source of lower priority than the one used.
C1_PriorityOrder ==
    pc # "select" =>
        LET r == sel.base
            tm == disk.task_mappings
        IN  /\ cli.model # None => r.ok /\ r.val = cli.model
            /\ cli.model # None =>
                   \A t \in TaskFlags, e \in EnvModels,
                      d \in {disk, NoRegistry("missing"), NoRegistry("malformed")} :
                       SameOutcome(select_model([cli EXCEPT !.task = t], e, d), r)
            /\ cli.model = None /\ cli.task # None =>
                   /\ disk.state # "ok" => ~r.ok /\ r.err # "Unknown task type"
                   /\ disk.state = "ok" /\ cli.task \in DOMAIN tm =>
                          r.ok /\ r.val = tm[cli.task]
                   /\ disk.state = "ok" /\ cli.task \notin DOMAIN tm =>
                          ~r.ok /\ r.err = "Unknown task type"
                   /\ \A e \in EnvModels, dm \in ModelNames :
                          SameOutcome(select_model(cli, e, [disk EXCEPT !.default_model = dm]), r)
            /\ cli.model = None /\ cli.task = None /\ env_model # None =>
                   /\ r.ok /\ r.val = env_model
                   /\ \A d \in {disk, NoRegistry("missing"), NoRegistry("malformed")} :
                          SameOutcome(select_model(cli, env_model, d), r)
            /\ cli.model = None /\ cli.task = None /\ env_model = None =>
                   /\ disk.state = "ok" => r.ok /\ r.val = disk.default_model
                   /\ disk.state # "ok" => ~r.ok

\* All four sources are present and name four different things; the
\* selector has answered with the --model value.
C1_Witness ==
    /\ pc = "adaptive"
    /\ cli.model = "a" /\ cli.task = "quick-review" /\ env_model = "b"
    /\ disk.state = "ok" /\ disk.default_model = "d"
    /\ "quick-review" \in DOMAIN disk.task_mappings
    /\ sel.base.ok /\ sel.base.val = "a"

\* C2: select_model_adaptive returns what select_model returns whenever
\* --model is given (any file count) and whenever file_count <= 1.
C2_NoSubstitution ==
    pc = "selected" /\ (cli.model # None \/ sel.file_count <= 1) =>
        SameOutcome(sel.adaptive, sel.base)

\* The speed class of the resolved model in the registry is slow or
\* moderate (index of its descriptor, 0 when there is none).
ResolvedIndex == find_model_info(disk.models, sel.base.val)

C3_Applies ==
    /\ pc = "selected"
    /\ cli.model = None
    /\ sel.file_count > 1
    /\ sel.base.ok
    /\ disk.state = "ok"
    /\ ResolvedIndex # 0

\* C3: without --model and with file_count > 1, a resolved model whose
\* descriptor is moderate or slow is replaced by the first fast or very-fast
\* descriptor in registry order, kept when there is none, and a resolved
\* model that is already fast or very-fast is returned unchanged.
C3_FirstFastSubstitution ==
    C3_Applies =>
        LET ms == disk.models
            speed == ms[ResolvedIndex].speed
            fast == {j \in 1..Len(ms) : ms[j].speed \in {"fast", "very-fast"}}
        IN  /\ sel.adaptive.ok
            /\ speed \in {"moderate", "slow"} /\ fast # {} =>
                   \E j \in fast : /\ \A k \in fast : j <= k
                                   /\ sel.adaptive.val = ms[j].name
            /\ speed \in {"moderate", "slow"} /\ fast = {} =>
                   sel.adaptive.val = sel.base.val
            /\ speed \in {"fast", "very-fast"} => sel.adaptive.val = sel.base.val

\* A slow default model, two faster descriptors after it: the first of the
\* two was substituted.
C3_Witness ==
    /\ C3_Applies
    /\ Len(disk.models) = 3
    /\ disk.models[1].speed = "slow" /\ ResolvedIndex = 1
    /\ disk.models[2].speed = "very-fast" /\ disk.models[3].speed = "fast"
    /\ sel.adaptive.val = disk.models[2].name

\* --task names a label that the loaded registry does not map, and --model
\* is absent.
C12_Applies ==
    /\ pc # "select"
    /\ cli.model = None /\ cli.task # None
    /\ disk.state = "ok"
    /\ cli.task \notin DOMAIN disk.task_mappings

\* C12: a task label that is absent from the registry's task mappings, with
\* no --model, makes selection fail with the unknown-task error, which lists
\* every task label of the registry; the outcome is the same whatever
\* MODEL_NAME and the registry default are, and the adaptive selector fails
\* in the same way for every file count.
C12_UnknownTask ==
    C12_Applies =>
        /\ ~sel.base.ok
        /\ sel.base.err = "Unknown task type"
        /\ sel.base.val = None
        /\ sel.base.detail = {t \in TaskLabels : t \in DOMAIN disk.task_mappings}
        /\ \A e \in EnvModels, dm \in ModelNames :
               LET r == select_model(cli, e, [disk EXCEPT !.default_model = dm])
               IN  SameOutcome(r, sel.base) /\ r.detail = sel.base.detail
        /\ pc = "selected" =>
               /\ SameOutcome(sel.adaptive, sel.base)
               /\ sel.adaptive.detail = sel.base.detail

\* MODEL_NAME is set, the registry maps two task labels and has a default,
\* --task names neither label: the error lists both.
C12_Witness ==
    /\ C12_Applies
    /\ pc = "selected"
    /\ cli.task = "nonexistent-task" /\ env_model = "b"
    /\ disk.default_model = "a"
    /\ sel.file_count = 2
    /\ ~sel.adaptive.ok
    /\ sel.adaptive.detail = {"quick-review", "security"}

\* C13: with --model the adaptive selector returns that name verbatim for
\* every file count, whatever the state of the registry document (missing,
\* malformed, or without a descriptor of that name), and for file_count > 1
\* writes at most the slow-model advisory.
C13_ExplicitVerbatim ==
    pc = "selected" /\ cli.model # None =>
        /\ sel.adaptive.ok
        /\ sel.adaptive.val = cli.model
        /\ sel.file_count <= 1 => sel.adaptive.notes = <<>>
        /\ \A i \in DOMAIN sel.adaptive.notes :
               sel.adaptive.notes[i].kind = "slow-model-warning"

\* The registry document loads, selection has resolved a name, and no
\* descriptor of the registry has that name.
C14_Applies ==
    /\ pc = "selected"
    /\ disk.state = "ok"
    /\ sel.base.ok
    /\ \A j \in DOMAIN disk.models : disk.models[j].name # sel.base.val

\* C14: a resolved model name, from whichever source, that no descriptor of
\* the loaded registry bears is returned unchanged by the adaptive selector,
\* without error, substitution or message, for every file count.
C14_UnknownNameKept ==
    C14_Applies =>
        /\ sel.adaptive.ok
        /\ sel.adaptive.val = sel.base.val
        /\ sel.adaptive.notes = <<>>
        /\ \A fc \in 0..MaxFileCount :
               LET r == select_model_adaptive(cli, env_model, disk, fc)
               IN  r.ok /\ r.val = sel.base.val /\ r.notes = <<>>

\* The task label maps to a name without descriptor, the registry has a
\* fast descriptor, three files: the mapped name was kept.
C14_Witness ==
    /\ C14_Applies
    /\ cli.model = None /\ cli.task = "quick-review"
    /\ sel.file_count = 3
    /\ find_fast_model(disk.models) # 0
    /\ sel.base.val = "c" /\ sel.adaptive.val = "c"

-----------------------------------------------------------------------------
(* SpecDir: collect_files_in_dir over generated directory trees.           *)

\* Levels of directories below the root.
MaxDepth == 2

DirNames == {<<"s">>, <<".", "h">>, TargetName, NodeModulesName}

RootNames == {<<"d">>, <<".", "h">>, TargetName}

\* The entries a directory can hold with at most depth levels below it: a
\* file named a, or a directory of any name holding at most one entry.
RECURSIVE Entries(_)
Entries(depth) ==
    {File(<<"a">>)} \cup
        (IF depth = 0 THEN {}
         ELSE {Dir(n, cs) : n \in DirNames, cs \in SeqsUpTo(Entries(depth - 1), 1)})

\* The entries of one directory have different names.
DistinctNames(cs) == \A i, j \in DOMAIN cs : cs[i].name = cs[j].name => i = j

GeneratedTrees ==
    {Dir(n, cs) : n \in RootNames,
                  cs \in {es \in SeqsUpTo(Entries(MaxDepth), 2) : DistinctNames(es)}}

InitDir ==
    /\ \E p \in Patterns : cli = [DefaultCli EXCEPT !.mode = "dir", !.pattern = p]
    /\ \E t \in GeneratedTrees : input = [NoInput EXCEPT !.tree = t]
    /\ env_model = None
    /\ disk = PipelineRegistry
    /\ pc = "handle_directory"
    /\ Idle

NextDir == HandleDirectory

SpecDir == InitDir /\ [][NextDir]_vars

\* The directories a discovered path lies in, the root first.
DirsOf(path) == LET comps == Split(path, "/") IN SubSeq(comps, 1, Len(comps) - 1)

IsHiddenOrIgnored(name) ==
    Head(name) = "." \/ name = TargetName \/ name = NodeModulesName

\* C15 as claimed: for every root, no discovered file lies in a directory
\* whose name starts with '.' or is 'target' or 'node_modules'.
C15_NoSkippedDirectory ==
    \A i \in DOMAIN files :
        \A j \in DOMAIN DirsOf(files[i]) : ~IsHiddenOrIgnored(DirsOf(files[i])[j])

\* C15 as the code has it: no discovered file lies in a directory below the
\* root whose name starts with '.' or is 'target' or 'node_modules', at any
\* depth; the name of the root itself is not looked at, so a matching file
\* directly in the root is discovered whatever the root is called.
C15_NoSkippedDirectoryBelowRoot ==
    pc # "handle_directory" =>
        /\ \A i \in DOMAIN files :
               LET dirs == DirsOf(files[i])
               IN  /\ dirs[1] = input.tree.name
                   /\ \A j \in 2..Len(dirs) : ~IsHiddenOrIgnored(dirs[j])
        /\ \A k \in DOMAIN input.tree.children :
               input.tree.children[k].kind = "file" =>
                   \E i \in DOMAIN files :
                       files[i] = input.tree.name \o <<"/">> \o input.tree.children[k].name

\* --dir target, holding a file and a directory s with a hidden directory
\* in it that holds a file: only the file in the root was discovered.
C15_Witness ==
    /\ pc = "loop"
    /\ input.tree.name = TargetName
    /\ Len(input.tree.children) = 2
    /\ input.tree.children[1].kind = "file"
    /\ input.tree.children[2] = Dir(<<"s">>, <<Dir(<<".", "h">>, <<File(<<"a">>)>>)>>)
    /\ files = <<TargetName \o <<"/", "a">> >>

-----------------------------------------------------------------------------
(* SpecPattern: matches_pattern over generated paths and patterns.         *)

PatternChars == {"*", ".", "{", "}", ",", "a"}

Extensions == SeqsUpTo({"a", "b"}, 1)

\* *.{e1,e2} and *.{e1}
BracePatterns ==
    {<<"*", ".", "{">> \o e1 \o <<",">> \o e2 \o <<"}">> : e1 \in Extensions, e2 \in Extensions}
        \cup {<<"*", ".", "{">> \o e1 \o <<"}">> : e1 \in Extensions}

GeneratedPatterns == SeqsUpTo(PatternChars, MaxStrLen) \cup BracePatterns

PathChars == {"/", ".", "a", "b"}

\* The paths of directory entries: they have a last component.
GeneratedPaths == {p \in SeqsUpTo(PathChars, MaxStrLen) : file_name(p) # <<>>}

InitPattern ==
    /\ \E p \in GeneratedPatterns : cli = [DefaultCli EXCEPT !.mode = "dir", !.pattern = p]
    /\ \E f \in GeneratedPaths : input = [NoInput EXCEPT !.tree = File(f)]
    /\ env_model = None
    /\ disk = PipelineRegistry
    /\ pc = "matches_pattern"
    /\ Idle

\* matches_pattern(&path, pattern) as visit_dirs calls it on an entry
CallMatchesPattern ==
    /\ pc = "matches_pattern"
    /\ results' = <<matches_pattern(input.tree.name, cli.pattern)>>
    /\ pc' = "matched"
    /\ UNCHANGED <<config, files, idx, run_num, durations, sections, stdout, stderr,
                   exit_code, trace, sel>>

NextPattern == CallMatchesPattern

SpecPattern == InitPattern /\ [][NextPattern]_vars

\* The text ends with the suffix.
HasSuffix(s, suffix) == \E k \in 0..Len(s) : SubSeq(s, k + 1, Len(s)) = suffix

\* The comma-separated alternatives of a brace list: its maximal pieces
\* without a comma (possibly empty).
Alternatives(list) ==
    {SubSeq(list, ij[1], ij[2]) : ij \in
        {ij \in (1..(Len(list) + 1)) \X (0..Len(list)) :
            /\ ij[2] >= ij[1] - 1
            /\ (ij[1] = 1 \/ list[ij[1] - 1] = ",")
            /\ (ij[2] = Len(list) \/ list[ij[2] + 1] = ",")
            /\ \A k \in ij[1]..ij[2] : list[k] # ","}}

\* C16: matches_pattern decides on the last component of the path alone:
\* "*" matches every file; "*.ext" matches exactly the filenames that end in
\* ".ext"; "*.{e1,e2,...}" matches exactly the filenames that end in ".ei"
\* for some listed ei; every other pattern matches exactly the filename
\* equal to it.
C16_PatternMatching ==
    pc = "matched" =>
        LET pattern == cli.pattern
            path == input.tree.name
            filename == file_name(path)
            matched == results[1]
            ext == SubSeq(pattern, 3, Len(pattern))
            braces == Len(ext) >= 2 /\ ext[1] = "{" /\ ext[Len(ext)] = "}"
        IN  /\ pattern = <<"*">> => matched
            /\ pattern # <<"*">> /\ Len(pattern) >= 2 /\ SubSeq(pattern, 1, 2) = <<"*", ".">> =>
                   /\ braces =>
                          (matched <=>
                              \E e \in Alternatives(SubSeq(ext, 2, Len(ext) - 1)) :
                                  HasSuffix(filename, <<".">> \o e))
                   /\ ~braces => (matched <=> HasSuffix(filename, <<".">> \o ext))
            /\ pattern # <<"*">> /\ ~(Len(pattern) >= 2 /\ SubSeq(pattern, 1, 2) = <<"*", ".">>) =>
                   (matched <=> filename = pattern)
            /\ \A dir \in {<<"a", "/">>, <<"x", ".", "a", "/">>, <<".", "/", "*", "/">>} :
                   matches_pattern(dir \o filename, pattern) = matched

\* The pattern *.{a,b} against the filename a.b, which ends in ".b":
\* matched.
C16_Witness ==
    /\ pc = "matched"
    /\ cli.pattern = <<"*", ".", "{", "a", ",", "b", "}">>
    /\ input.tree.name = <<"a", ".", "b">>
    /\ results = <<TRUE>>

-----------------------------------------------------------------------------
(* SpecGit: --git-diff discovery over generated outputs of the two git     *)
(* commands.                                                               *)

StagedChars == {"\n", "\r", " ", "a"}

UnstagedChars == {"\n", " ", "b"}

GeneratedStaged == {GitFailed} \cup {GitOut(t) : t \in SeqsUpTo(StagedChars, MaxStrLen)}

GeneratedUnstaged == {GitFailed} \cup {GitOut(t) : t \in SeqsUpTo(UnstagedChars, MaxStrLen)}

InitGit ==
    /\ cli = [DefaultCli EXCEPT !.mode = "git", !.dry_run = TRUE]
    /\ \E st \in GeneratedStaged, un \in GeneratedUnstaged :
           input = [NoInput EXCEPT !.staged = st, !.unstaged = un]
    /\ env_model = None
    /\ disk = PipelineRegistry
    /\ pc = "fetch_changed_files"
    /\ Idle

\* GitDiff::fetch_changed_files, as handle_git_diff calls it first; the
\* GitDiff value (or the error) is kept in results.
FetchChangedFiles ==
    /\ pc = "fetch_changed_files"
    /\ results' = <<fetch_changed_files(input.staged, input.unstaged)>>
    /\ pc' = "handle_git_diff"
    /\ UNCHANGED <<config, files, idx, run_num, durations, sections, stdout, stderr,
                   exit_code, trace, sel>>

NextGit == FetchChangedFiles \/ HandleGitDiff

SpecGit == InitGit /\ [][NextGit]_vars

\* The text holds nothing but whitespace.
IsBlank(text) == \A i \in DOMAIN text : text[i] \in {" ", "\t", "\n", "\r"}

\* The pieces of the text between line feeds that are not blank, each
\* without the whitespace around it, in order.
NonBlankLines(text) ==
    LET NotBlank(piece) == ~IsBlank(piece)
    IN  TrimAll(SelectSeq(Split(text, "\n"), NotBlank))

\* C17: the staged change set is queried first; the unstaged one is queried
\* if and only if the staged output is empty after trimming; the file list
\* is the lines of the chosen output, trimmed, without the blank ones, in
\* order; and when the staged output is not empty the unstaged output has
\* no part in the list.
C17_StagedThenUnstaged ==
    pc \in {"loop", "exit"} =>
        LET git_diff == results[1]
            staged == input.staged
            unstaged == input.unstaged
        IN  /\ git_diff.fallback <=> (staged.ok /\ IsBlank(staged.out))
            /\ git_diff.ok <=> (staged.ok /\ (IsBlank(staged.out) => unstaged.ok))
            /\ git_diff.ok =>
                   files = NonBlankLines(IF IsBlank(staged.out) THEN unstaged.out
                                         ELSE staged.out)
            /\ ~git_diff.ok => files = <<>> /\ exit_code = 1
            /\ \A i \in DOMAIN files :
                   /\ files[i] # <<>>
                   /\ ~IsWhitespace(files[i][1]) /\ ~IsWhitespace(files[i][Len(files[i])])
                   /\ \A k \in DOMAIN files[i] : files[i][k] # "\n"
            /\ staged.ok /\ ~IsBlank(staged.out) =>
                   /\ ~git_diff.fallback
                   /\ files # <<>>
                   /\ \A i \in DOMAIN files : \A k \in DOMAIN files[i] : files[i][k] # "b"

\* The staged output is one blank line, the unstaged output holds b
\* and a blank line: the second query was made and the list is b alone.
C17_Witness ==
    /\ pc = "loop"
    /\ input.staged = GitOut(<<" ", "\n">>)
    /\ input.unstaged = GitOut(<<"b", "\n", "\n">>)
    /\ results[1].fallback
    /\ files = <<(<<"b">>)>>

\* C18: the discovered file list holds no path twice, so a path that the
\* --files argument names more than once (after trimming) is reviewed once
\* and has one section in the output (stated for the paths that are not
\* empty).
C18_NoDuplicatePaths ==
    /\ \A i, j \in DOMAIN files :
           files[i] # <<>> /\ files[i] = files[j] => i = j
    /\ \A j, k \in DOMAIN trace :
           trace[j].path # <<>> /\ trace[j].path = trace[k].path =>
               trace[j].file = trace[k].file

-----------------------------------------------------------------------------
(* SpecBackend: --files invocations against every kind of backend answer.  *)

BodyChars == {" ", "\n", "r"}

Bodies == SeqsUpTo(BodyChars, 2)

\* The request cannot be sent; the status is not a success; or a success
\* whose body is a JSON document with message.content = text, or the text.
GeneratedResponses ==
    {Response(FALSE, FALSE, FALSE, <<>>), Response(TRUE, FALSE, FALSE, <<>>)}
        \cup {Response(TRUE, TRUE, json, text) : json \in BOOLEAN, text \in Bodies}

\* --files a,b in one run per file, and --files a in 2..MaxRuns runs.
InitBackend ==
    /\ \/ cli = [DefaultCli EXCEPT !.mode = "files", !.files = <<"a", ",", "b">>]
       \/ \E n \in 2..MaxRuns, vm \in BOOLEAN :
              cli = [DefaultCli EXCEPT !.mode = "files", !.files = <<"a">>, !.runs = n,
                                       !.validation_mode = vm]
    /\ input = NoInput
    /\ env_model = None
    /\ disk = PipelineRegistry
    /\ pc = "handle_files"
    /\ Idle

NextBackend ==
    \/ HandleFiles
    \/ ReviewFileWith(GeneratedResponses)
    \/ BeginRuns
    \/ RunOnceWith(GeneratedResponses)
    \/ FinishRuns
    \/ EmitOutput

SpecBackend == InitBackend /\ [][NextBackend]_vars

\* The backend answered with success, and the body is empty or blank, is
\* not valid JSON, or holds an empty or blank message content.
IsEmptyOrInvalid(resp) ==
    resp.sent /\ resp.success /\ (~resp.json \/ IsBlank(resp.text))

\* The review texts of a section.
ReviewsOf(section) ==
    IF section.body.kind = "review" THEN <<section.body>> ELSE section.body.runs

\* C19: a backend answer that is empty or blank (the body, or the message
\* content) or that is not valid JSON makes the call fail; its run is not
\* aggregated, a file with no other successful run gets no section, and no
\* section holds an empty review.
C19_EmptyResponseFails ==
    /\ \A k \in DOMAIN trace :
           trace[k].invoked /\ IsEmptyOrInvalid(trace[k].response) =>
               /\ ~trace[k].ok
               /\ trace[k].val = None
               /\ trace[k].err \in {"Ollama returned empty response",
                                    "Failed to parse Ollama response",
                                    "Ollama returned empty content"}
    /\ \A j \in DOMAIN sections :
           /\ ReviewsOf(sections[j]) # <<>>
           /\ \A i \in DOMAIN ReviewsOf(sections[j]) :
                  ~IsBlank(ReviewsOf(sections[j])[i].content)
    /\ pc \in {"loop", "exit"} =>
           /\ Len(sections) = Cardinality({i \in 1..idx : Succeeded(i)})
           /\ \A j \in DOMAIN sections :
                  Len(ReviewsOf(sections[j])) = Cardinality(OkRuns(SucceededIndices[j]))

\* Two files in one run each: the backend answered the first with a JSON
\* document whose message content is blank and the second with a review;
\* the output holds the second file's section only.
C19_Witness ==
    /\ pc = "exit"
    /\ Len(trace) = 2
    /\ trace[1].response = Response(TRUE, TRUE, TRUE, <<" ", "\n">>)
    /\ ~trace[1].ok /\ trace[1].err = "Ollama returned empty content"
    /\ trace[2].ok
    /\ Len(stdout) = 2 /\ stdout[2].file_name = <<"b">>

-----------------------------------------------------------------------------
(* SpecDisk: an invocation during which models.json is rewritten.          *)

\* The registry document after the rewrite: one fast model, the default.
ChangedRegistry ==
    Registry(<<[name |-> "d", speed |-> "fast"]>>, [t \in TaskLabels |-> "d"], "d")

\* Another process replaces models.json while the per-file loop runs.
RegistryChanges ==
    /\ pc \in {"loop", "runs"}
    /\ disk \in PipelineDisks
    /\ disk' = ChangedRegistry
    /\ UNCHANGED <<cli, env_model, input, pc, files, idx, run_num, results, durations,
                   sections, stdout, stderr, exit_code, trace, sel>>

NextDisk ==
    \/ Main
    \/ HandleFiles
    \/ HandleGitDiff
    \/ HandleDirectory
    \/ ReviewFile
    \/ BeginRuns
    \/ RunOnce
    \/ FinishRuns
    \/ EmitOutput
    \/ RegistryChanges

SpecDisk == Init /\ [][NextDisk]_vars

\* C20: the registry is loaded at most once per invocation and not read
\* again, so every model selection of one invocation observes the same
\* registry contents, even if models.json changes during the run: all
\* review calls of the invocation select the same model, or all fail with
\* the same configuration error.
C20_SameRegistryForEverySelection ==
    \A j, k \in DOMAIN trace :
        /\ trace[j].model = trace[k].model
        /\ IsConfigError(trace[j]) <=> IsConfigError(trace[k])
        /\ IsConfigError(trace[j]) => trace[j].err = trace[k].err

\* The "using faster model" notices the adaptive selector has written.
FasterNotices ==
    {i \in DOMAIN sel.adaptive.notes : sel.adaptive.notes[i].kind = "using-faster-model"}

\* C21: the "using faster model" notice is written if and only if the
\* adaptive selector returns a fast or very-fast model different from the
\* resolved one; when the registry has no fast or very-fast descriptor the
\* resolved model is kept and no notice is written.
C21_NoticeIffSubstituted ==
    pc = "selected" /\ sel.adaptive.ok =>
        /\ FasterNotices # {} <=> sel.adaptive.val # sel.base.val
        /\ disk.state = "ok" /\ find_fast_model(disk.models) = 0 =>
               sel.adaptive.val = sel.base.val /\ FasterNotices = {}

\* C22: with --validation-mode and --runs N > 1, the section of a file with
\* at least one successful run is the validation report; its total run
\* count and the number of durations averaged are the number of successful
\* runs (not N); and the per-run table is present exactly when
\* --show-metrics is given, with one row per successful run.
C22_ValidationReport ==
    cli.validation_mode /\ cli.runs > 1 /\ pc \in {"loop", "exit"} =>
        \A j \in DOMAIN sections :
            LET report == sections[j].body
                successful == Cardinality(OkRuns(SucceededIndices[j]))
            IN  /\ report.kind = "validation-report"
                /\ successful >= 1
                /\ report.total_runs = successful
                /\ Len(report.averaged) = successful
                /\ Len(report.runs) = successful
                /\ report.has_metrics <=> cli.show_metrics
                /\ cli.show_metrics =>
                       /\ Len(report.metrics) = successful
                       /\ \A i \in DOMAIN report.metrics :
                              /\ report.metrics[i].run = i
                              /\ report.metrics[i].duration = report.averaged[i]
                /\ ~cli.show_metrics => report.metrics = <<>>

\* --runs 2 --validation-mode without --show-metrics: one of the two runs
\* of the file failed, the report counts one run and has no table.
C22_Witness ==
    /\ cli.validation_mode /\ ~cli.show_metrics /\ cli.runs = 2
    /\ pc = "loop" /\ idx = 1
    /\ Cardinality(AttemptsOf(1)) = 2
    /\ Cardinality(OkRuns(1)) = 1
    /\ Len(sections) = 1
    /\ sections[1].body.total_runs = 1
    /\ ~sections[1].body.has_metrics

\* C23: in the per-file loop the number of sections collected plus the
\* number of per-file errors logged is the number of files processed so
\* far; at the end there are at most as many sections as files, and every
\* file reviewed with success has exactly one section, headed by its own
\* filename.
C23_Conservation ==
    /\ pc \in {"loop", "runs", "exit"} =>
           /\ Len(sections) + Len(LogLines("Error reviewing")) = idx
           /\ idx <= Len(files)
           /\ \A l \in DOMAIN LogLines("Error reviewing") :
                  \E i \in 1..idx : ~Succeeded(i) /\ LogLines("Error reviewing")[l].path = files[i]
    /\ LoopDone =>
           /\ idx = Len(files)
           /\ Len(sections) <= Len(files)
           /\ \E pos \in [{i \in 1..Len(files) : Succeeded(i)} -> DOMAIN sections] :
                  /\ \A i1, i2 \in DOMAIN pos : pos[i1] = pos[i2] => i1 = i2
                  /\ \A j \in DOMAIN sections : \E i \in DOMAIN pos : pos[i] = j
                  /\ \A i \in DOMAIN pos :
                         sections[pos[i]].file_name = display_name(files[i])
           /\ SelectSeq(stdout, LAMBDA l : l.kind = "section") = sections

\* Two files: the first was reviewed, the second failed; one section,
\* headed by the first file's name, and one logged error.
C23_Witness ==
    /\ LoopDone
    /\ Len(files) = 2
    /\ Succeeded(1) /\ ~Succeeded(2)
    /\ Len(sections) = 1
    /\ sections[1].file_name = display_name(files[1])
    /\ Len(LogLines("Error reviewing")) = 1
    /\ LogLines("Error reviewing")[1].path = files[2]

====
